---- MODULE Spec2Model ----
(***************************************************************************)
(* Connection orchestration and lifecycle tracking of the Socket.IO load   *)
(* tester: SocketClient (connect with retries, transport listeners) and    *)
(* ConnectionTester (chunked ramp-up, hold, disconnectAll, disconnection   *)
(* callback, statistics).                                                  *)
(*                                                                         *)
(* One action is one macrotask of the Node.js event loop: a transport      *)
(* event or a timer callback together with every promise continuation      *)
(* (microtask) it releases.  Array positions are 0-based as in the source; *)
(* At(seq, p) reads position p.                                            *)
(***************************************************************************)
EXTENDS Integers, Sequences, FiniteSets, TLC

\* ------------------------------------------------------------------ bounds
MaxTarget == 3
MaxRate == 2

TargetValues == 0..MaxTarget
RateValues == 0..MaxRate
MaxRetriesValues == {0, 1}
RetryDelayValues == {1000}
TestDurationValues == {0, 15}
PercentageValues == {40, 100}
MaxRuns == 2
MaxReuseTarget == 1
\* The clients one reused tester may create over all its runs.
MaxReuseClients == 2
\* The connection attempts one run may need: targetConnections * (maxRetries + 1).
MaxAttempts == 6
\* With connectionRate 0 the chunk loop never advances: its iterations are cut.
LoopCap == MaxTarget + 1
\* The runs that vary the base delay, repeat the shutdown, or let the transport
\* close a pending socket are explored for fewer connections.
MaxBackoffTarget == 1
BackoffRetriesValues == {0, 1, 5}
BackoffDelayValues == {0, 500, 1000}
MaxShutdownTarget == 2
MaxShutdowns == 2
MaxEarlyTarget == 2
ProbeTargetValues == {0, 1, 2}
PingTargetValues == {0, 1, 2}
LivenessTargetValues == {0, 1}
MaxPings == 2
MaxTicks == 1
MessageIntervalValues == {0, 1000}
ThrowTargetValues == {0, 1, 2}
ServerHostValues == {"localhost"}
ServerPortValues == {3000}
HeadersValues == {<<>>}   \* the optional headers field is left out
CompanyIdValues == {"11110000"}
TokenValues == {"your_token_here"}

\* ------------------------------------------------------- program constants
DefaultMaxRetries == 3
DefaultRetryDelay == 1000
LocalCloseReason == "io client disconnect"
ManualReason == "manual_disconnect"
TransportReasons == {"transport close"}

\* ------------------------------------------------------------ optional values
\* An optional field of ConnectionResult: None is undefined, Some(x) is x.
None == <<>>
Some(x) == <<x>>
Truthy(o) == o = Some(TRUE)

At(seq, p) == seq[p + 1]
Positions(seq) == 0..(Len(seq) - 1)

\* ------------------------------------------------------------- client identity
RECURSIVE Digits(_)
Digits(n) == IF n < 10 THEN <<n>> ELSE Digits(n \div 10) \o <<n % 10>>

\* `client-${index}`
ClientId(index) == <<"client-">> \o Digits(index)

RECURSIVE DigitsValue(_)
DigitsValue(ds) ==
    IF Len(ds) = 0 THEN 0
    ELSE 10 * DigitsValue(SubSeq(ds, 1, Len(ds) - 1)) + ds[Len(ds)]

\* parseInt(clientId.replace('client-', ''))
ParseClientIndex(clientId) ==
    IF Len(clientId) > 0 /\ clientId[1] = "client-"
    THEN DigitsValue(Tail(clientId))
    ELSE -1

\* ------------------------------------------------------------------- state
VARIABLES
    config,                     \* BenchmarkConfig of the tester
    clients,                    \* ConnectionTester.clients, one SocketClient each
    results,                    \* ConnectionTester.results
    activeConnections,
    disconnectedConnections,
    spontaneousDisconnections,
    pc,                         \* position of testConnections()
    i,                          \* loop variable of the chunk loop
    chunkPromises,              \* positions in clients of the awaited chunk
    now,                        \* logical clock read by Date.now() / new Date()
    chunkLog,                   \* history: the slots launched, chunk by chunk
    runs,                       \* history: testConnections() calls so far
    simTimers,                  \* pending setTimeout closes of a simulation
    sim,                        \* history: the last simulation call
    shutdowns,                  \* history: disconnectAll() calls so far
    prober                      \* the message prober of startMessageTesting()

vars == <<config, clients, results, activeConnections, disconnectedConnections,
          spontaneousDisconnections, pc, i, chunkPromises, now, chunkLog, runs,
          simTimers, sim, shutdowns, prober>>

\* The tester's mutable state as one value, so that handlers compose.
Tester == [clients |-> clients, results |-> results,
           active |-> activeConnections,
           disconnected |-> disconnectedConnections,
           spontaneous |-> spontaneousDisconnections,
           pc |-> pc, i |-> i, chunkPromises |-> chunkPromises,
           chunkLog |-> chunkLog, shutdowns |-> shutdowns, prober |-> prober]

Commit(s) ==
    \E v \in {s} :
        /\ clients' = v.clients
        /\ results' = v.results
        /\ activeConnections' = v.active
        /\ disconnectedConnections' = v.disconnected
        /\ spontaneousDisconnections' = v.spontaneous
        /\ pc' = v.pc
        /\ i' = v.i
        /\ chunkPromises' = v.chunkPromises
        /\ chunkLog' = v.chunkLog
        /\ shutdowns' = v.shutdowns
        /\ prober' = v.prober

\* ------------------------------------------------------------ configuration
\* `this.config.maxRetries || 3`: 0 is falsy in the source language.
EffectiveMaxRetries(cfg) ==
    IF cfg.maxRetries = 0 THEN DefaultMaxRetries ELSE cfg.maxRetries

\* `this.config.retryDelay || 1000`
EffectiveRetryDelay(cfg) ==
    IF cfg.retryDelay = 0 THEN DefaultRetryDelay ELSE cfg.retryDelay

\* Math.pow(2, n) for an integer n >= 0: exact in double arithmetic.
RECURSIVE Pow2(_)
Pow2(n) == IF n <= 0 THEN 1 ELSE 2 * Pow2(n - 1)

\* The delay connect() waits before attempt number attempt (>= 1).
BackoffDelay(retryDelay, attempt) == retryDelay * Pow2(attempt - 1)

\* ------------------------------------------------------------- SocketClient
\* The namespace every attempt connects to.
Namespace == "/load-test"

\* io(url, socketOptions) as attemptConnection() calls it: the address is
\* written into the call, host and port are not used; the headers, when
\* given, go into extraHeaders and auth.
io(host, port, headers) ==
    [scheme |-> "https",
     host |-> "d5.drkumo.com",
     port |-> None,
     namespace |-> Namespace,
     extraHeaders |-> headers,
     auth |-> headers]

\* The headers createConnection() passes to connect(): the configured ones,
\* or authorization and companyid built from the token and the company id.
ConnectHeaders(cfg) ==
    IF cfg.headers # None
    THEN cfg.headers
    ELSE Some([authorization |-> cfg.token, companyid |-> cfg.companyId])

\* attemptConnection(host, port, headers) up to the returned promise: the
\* socket is opened.
attemptConnection(c, cfg) ==
    [c EXCEPT !.socket = "opening",
              !.attempts = @ + 1,
              !.opened = Append(@, io(cfg.serverHost, cfg.serverPort,
                                      ConnectHeaders(cfg)))]

\* new SocketClient(`client-${index}`, ...) followed by connect() up to its
\* first suspension: attempt 0 is started without delay.
NewClient(index, run) ==
    [clientId |-> ClientId(index),
     slot |-> index,                \* history: the slot createConnection served
     run |-> run,                   \* history: the testConnections() call
     st |-> "connecting",           \* connecting | backoff | returned
     attempt |-> 0,
     lastError |-> "",
     socket |-> "opening",          \* null | opening | open | closed
     connected |-> FALSE,
     connectionStartTime |-> 0,
     pingInterval |-> FALSE,        \* the 5 s ping timer is armed
     pingCount |-> 0,
     failedPings |-> 0,
     pending |-> 0,                 \* sendPing() calls of the timer in flight
     pinged |-> {},                 \* history: socket states the timer pinged
     closedArmed |-> FALSE,         \* history: closed locally, timer armed
     failedWith |-> "",             \* history: the error of the final attempt
     attempts |-> 0,                \* history: attemptConnection() calls
     opened |-> <<>>,               \* history: what each attempt passed to io()
     delay |-> 0,                   \* the last backoff delay awaited
     events |-> <<>>,               \* history: reasons the listener received
     calls |-> <<>>]                \* history: disconnectionCallback invocations

\* Variant of IsFinalAttempt: the loop runs one attempt longer.
IsFinalAttemptOneLater(attempt, maxRetries) == attempt = maxRetries + 1

\* isFinalAttempt of connect()'s loop.
IsFinalAttempt(attempt, maxRetries) == attempt = maxRetries

\* Variant of stopPingInterval: the timer is left armed.
stopPingIntervalKeeps(c) == c

\* clearInterval(this.pingInterval)
stopPingInterval(c) == [c EXCEPT !.pingInterval = FALSE]

\* setInterval(..., 5000) in the 'connect' listener
startPingInterval(c) == [c EXCEPT !.pingInterval = TRUE]

cleanup(c) ==
    [stopPingInterval(c) EXCEPT !.socket = "null", !.connected = FALSE,
                                !.pingCount = 0, !.failedPings = 0]

\* The 'connect' listener of the attempt, run at time t.
onConnect(c, t) ==
    startPingInterval([c EXCEPT !.connected = TRUE,
                                !.socket = "open",
                                !.connectionStartTime = t])

\* The object connect() returns when an attempt succeeds.
SuccessResult(c, maxRetries) ==
    [unit |-> c.slot, run |-> c.run,
     success |-> TRUE,
     errorMessage |-> None,
     retryCount |-> c.attempt,
     finalAttempt |-> IsFinalAttempt(c.attempt, maxRetries),
     isActive |-> Some(TRUE),
     disconnectedAt |-> None,
     disconnectionReason |-> None,
     connectionDuration |-> None,
     spontaneousDisconnect |-> None]

\* Variant of FailureResult: the message keeps the error of the attempt before.
FailureResultPreviousError(c, maxRetries, lastError) ==
    [unit |-> c.slot, run |-> c.run,
     success |-> FALSE,
     errorMessage |-> Some(<<"Failed after", maxRetries + 1, c.lastError>>),
     retryCount |-> maxRetries,
     finalAttempt |-> TRUE,
     isActive |-> None,
     disconnectedAt |-> None,
     disconnectionReason |-> None,
     connectionDuration |-> None,
     spontaneousDisconnect |-> None]

\* The object connect() returns after the loop: all attempts failed.
FailureResult(c, maxRetries, lastError) ==
    [unit |-> c.slot, run |-> c.run,
     success |-> FALSE,
     errorMessage |-> Some(<<"Failed after", maxRetries + 1, lastError>>),
     retryCount |-> maxRetries,
     finalAttempt |-> TRUE,
     isActive |-> None,
     disconnectedAt |-> None,
     disconnectionReason |-> None,
     connectionDuration |-> None,
     spontaneousDisconnect |-> None]

\* The record createConnection pushes in its catch block.
CatchResult(c, cfg) ==
    [unit |-> c.slot, run |-> c.run,
     success |-> FALSE,
     errorMessage |-> Some(<<"Unknown error">>),
     retryCount |-> IF cfg.maxRetries = 0 THEN DefaultMaxRetries ELSE cfg.maxRetries,
     finalAttempt |-> TRUE,
     isActive |-> None,
     disconnectedAt |-> None,
     disconnectionReason |-> None,
     connectionDuration |-> None,
     spontaneousDisconnect |-> None]

\* ---------------------------------------------------------- ConnectionTester
\* results.findIndex(r => results.indexOf(r) === clientIndex): the records are
\* distinct objects, so indexOf(r) is r's own position.
FindResultIndex(res, clientId) ==
    LET clientIndex == ParseClientIndex(clientId)
    IN  IF clientIndex \in Positions(res) THEN clientIndex ELSE -1

\* Variant of MonitorGuard: a record of any outcome is classified.
MonitorGuardAnyOutcome(res, resultIndex) == resultIndex # -1

\* The condition under which handleDisconnection mutates the record found.
MonitorGuard(res, resultIndex) ==
    resultIndex # -1 /\ At(res, resultIndex).success

\* Variant of MarkSpontaneous: the record is marked active.
MarkSpontaneousReactivates(r, reason, connectionDuration, t) ==
    [r EXCEPT !.isActive = Some(TRUE),
              !.disconnectedAt = Some(t),
              !.disconnectionReason = Some(reason),
              !.connectionDuration = Some(connectionDuration),
              !.spontaneousDisconnect = Some(TRUE)]

MarkSpontaneous(r, reason, connectionDuration, t) ==
    [r EXCEPT !.isActive = Some(FALSE),
              !.disconnectedAt = Some(t),
              !.disconnectionReason = Some(reason),
              !.connectionDuration = Some(connectionDuration),
              !.spontaneousDisconnect = Some(TRUE)]

\* Variant of Max: the second argument, whatever the first.
MaxUnfloored(a, b) == b

Max(a, b) == IF a >= b THEN a ELSE b

handleDisconnection(s, clientId, reason, connectionDuration, t) ==
    LET resultIndex == FindResultIndex(s.results, clientId)
    IN  IF MonitorGuard(s.results, resultIndex)
        THEN [s EXCEPT
                !.results[resultIndex + 1] =
                    MarkSpontaneous(@, reason, connectionDuration, t),
                !.active = Max(0, @ - 1),
                !.disconnected = @ + 1,
                !.spontaneous = @ + 1]
        ELSE s

\* Variant of Reconnection: the client library reconnects by itself.
ReconnectionEnabled == TRUE

\* socketOptions.reconnection
Reconnection == FALSE

\* The socket after 'disconnect': the library reopens it only when
\* reconnection is on and the close was not asked for locally.
SocketAfterDisconnect(reason) ==
    IF Reconnection /\ reason # LocalCloseReason THEN "opening" ELSE "closed"

\* Variant of NotifiesTester: the reason is not looked at.
NotifiesAlways(reason) == TRUE

\* The listener's condition for notifying the tester.
NotifiesTester(reason) == reason # LocalCloseReason

\* socket.on('disconnect', reason => ...) of client k, run at time t.
onDisconnect(s, k, reason, t) ==
    LET c == At(s.clients, k)
        connectionDuration ==
            IF c.connectionStartTime > 0 THEN t - c.connectionStartTime ELSE 0
        call == [clientId |-> c.clientId,
                 reason |-> reason,
                 connectionDuration |-> connectionDuration,
                 at |-> t,
                 handshaken |-> c.connectionStartTime > 0]
        s1 == [s EXCEPT !.clients[k + 1] =
                    [stopPingInterval(c) EXCEPT
                        !.connected = FALSE,
                        !.socket = SocketAfterDisconnect(reason),
                        !.events = Append(@, reason)]]
    IN  IF NotifiesTester(reason)
        THEN handleDisconnection(
                 [s1 EXCEPT !.clients[k + 1].calls = Append(@, call)],
                 c.clientId, reason, connectionDuration, t)
        ELSE s1

\* SocketClient.disconnect(): socket.disconnect() emits 'disconnect' with the
\* local-close reason at once if the socket is connected, and nothing otherwise.
clientDisconnect(s, k, t) ==
    LET c == At(s.clients, k)
        s1 == [s EXCEPT !.clients[k + 1].closedArmed = @ \/ c.pingInterval]
    IN  IF c.socket = "null" THEN s
        ELSE IF c.socket = "open"
             THEN onDisconnect(s1, k, LocalCloseReason, t)
             ELSE [s1 EXCEPT !.clients[k + 1].socket = "closed",
                             !.clients[k + 1].connected = FALSE]

\* Variant of ManualGuard: every existing record is marked.
ManualGuardAnyRecord(res, index) == index \in Positions(res)

\* Variant of ManualGuard: success is tested in place of isActive.
ManualGuardSuccess(res, index) ==
    index \in Positions(res) /\ At(res, index).success

\* The condition under which disconnectAll marks results[index].
ManualGuard(res, index) ==
    index \in Positions(res) /\ Truthy(At(res, index).isActive)

\* Variant of MarkManual: isActive is left as it was.
MarkManualKeepsActive(r, t) ==
    [r EXCEPT !.disconnectedAt = Some(t),
              !.disconnectionReason = Some(ManualReason),
              !.spontaneousDisconnect = Some(FALSE)]

\* Variant of MarkManual: the shutdown classifies the record as spontaneous.
MarkManualAsSpontaneous(r, t) ==
    [r EXCEPT !.isActive = Some(FALSE),
              !.disconnectedAt = Some(t),
              !.disconnectionReason = Some(ManualReason),
              !.spontaneousDisconnect = Some(TRUE)]

MarkManual(r, t) ==
    [r EXCEPT !.isActive = Some(FALSE),
              !.disconnectedAt = Some(t),
              !.disconnectionReason = Some(ManualReason),
              !.spontaneousDisconnect = Some(FALSE)]

\* The first statement of an executor of disconnectAll: the record update.
markOne(s, index, t) ==
    IF ManualGuard(s.results, index)
    THEN [s EXCEPT !.results[index + 1] = MarkManual(@, t)]
    ELSE s

\* One executor of disconnectAll's clients.map((client, index) => ...).
disconnectOne(s, index, t) == clientDisconnect(markOne(s, index, t), index, t)

\* The executors for index, index + 1, ... in order, all in one macrotask.
RECURSIVE disconnectFrom(_, _, _)
disconnectFrom(s, index, t) ==
    IF index >= Len(s.clients) THEN s
    ELSE disconnectFrom(disconnectOne(s, index, t), index + 1, t)

disconnectAll(s, t) == disconnectFrom(s, 0, t)

\* The tester after the executors of the clients before index have run.
RECURSIVE executorsBefore(_, _, _)
executorsBefore(s, index, t) ==
    IF index = 0 THEN s
    ELSE disconnectOne(executorsBefore(s, index - 1, t), index - 1, t)

\* The tester at the moment the executor of index calls client.disconnect().
closeIssued(s, index, t) == markOne(executorsBefore(s, index, t), index, t)

\* -------------------------------------------------------- testConnections()
\* Variant of ChunkSlots: the inner loop without its (iv + j) < targetConnections test.
ChunkSlotsWholeChunk(iv, cfg) ==
    {iv + j : j \in 0..(cfg.connectionRate - 1)}

\* The slots of the chunk that starts at iv:
\* for (j = 0; j < chunkSize && (iv + j) < targetConnections; j++).
ChunkSlots(iv, cfg) ==
    {iv + j : j \in {jj \in 0..(cfg.connectionRate - 1) :
                        iv + jj < cfg.targetConnections}}

RECURSIVE SlotsInOrder(_)
SlotsInOrder(S) ==
    IF S = {} THEN <<>>
    ELSE LET m == CHOOSE x \in S : \A y \in S : x <= y
         IN  <<m>> \o SlotsInOrder(S \ {m})

\* After the hold (or at once when testDuration is 0): disconnectAll() up to
\* its await.
startShutdown(s, t) ==
    [disconnectAll(s, t) EXCEPT !.pc = "closing", !.shutdowns = @ + 1]

\* clients.filter(client => client.isConnected()), by position
RECURSIVE ConnectedNow(_, _)
ConnectedNow(cl, index) ==
    IF index >= Len(cl) THEN <<>>
    ELSE (IF At(cl, index).connected /\ At(cl, index).socket = "open"
          THEN <<index>> ELSE <<>>) \o ConnectedNow(cl, index + 1)

\* startMessageTesting(): the snapshot of connected clients, the interval
\* timer, and the timer that clears it after testDuration seconds.
startMessageTesting(s) ==
    [s EXCEPT !.prober = [@ EXCEPT !.armed = TRUE,
                                   !.connectedClients = ConnectedNow(s.clients, 0)]]

\* Variant of afterRamp: the prober is started whatever messageInterval is.
afterRampProbesAlways(s, cfg, t) ==
    IF cfg.testDuration > 0
    THEN [startMessageTesting(s) EXCEPT !.pc = "hold"]
    ELSE startShutdown(s, t)

\* After the chunk loop: the hold, then the shutdown.
afterRamp(s, cfg, t) ==
    IF cfg.testDuration > 0
    THEN [(IF cfg.messageInterval > 0 THEN startMessageTesting(s) ELSE s)
             EXCEPT !.pc = "hold"]
    ELSE startShutdown(s, t)

\* The chunk loop's condition for taking the one-second pause.
PauseNeeded(iv, cfg) == iv + cfg.connectionRate < cfg.targetConnections

\* After `await Promise.all(chunkPromises)` of the chunk that started at s.i.
afterChunk(s, cfg, t) ==
    IF PauseNeeded(s.i, cfg)
    THEN [s EXCEPT !.pc = "pause"]
    ELSE afterRamp([s EXCEPT !.i = @ + cfg.connectionRate], cfg, t)

\* Variant of ChunkSettled: the chunk is not awaited.
ChunkSettledAtOnce(s) == TRUE

\* Promise.all(chunkPromises) is settled once every unit of the chunk returned.
ChunkSettled(s) ==
    \A k \in s.chunkPromises : At(s.clients, k).st = "returned"

settle(s, cfg, t) ==
    IF s.pc = "await" /\ ChunkSettled(s) THEN afterChunk(s, cfg, t) ELSE s

\* The head of the chunk loop with loop variable iv.
loopFrom(s, iv, cfg, run, t) ==
    IF iv < cfg.targetConnections
    THEN LET slots == SlotsInOrder(ChunkSlots(iv, cfg))
             fresh == [n \in 1..Len(slots) |->
                          attemptConnection(NewClient(slots[n], run), cfg)]
             s1 == [s EXCEPT
                      !.i = iv,
                      !.pc = "await",
                      !.clients = @ \o fresh,
                      !.chunkPromises =
                          {Len(s.clients) + n - 1 : n \in 1..Len(slots)},
                      !.chunkLog = Append(@, ChunkSlots(iv, cfg))]
         IN  settle(s1, cfg, t)
    ELSE afterRamp([s EXCEPT !.i = iv], cfg, t)

\* Variant of pushResult: only a successful outcome is recorded.
pushResultIfSuccess(s, k, result) ==
    IF result.success
    THEN [s EXCEPT !.results = Append(@, [result EXCEPT !.isActive = Some(TRUE)]),
                   !.active = @ + 1,
                   !.clients[k + 1].st = "returned",
                   !.clients[k + 1].lastError = ""]
    ELSE [s EXCEPT !.clients[k + 1].st = "returned",
                   !.clients[k + 1].lastError = ""]

\* Variant of pushResult: the record is put in front of the list.
pushResultInFront(s, k, result) ==
    LET r == [result EXCEPT !.isActive = Some(result.success)]
    IN  [s EXCEPT !.results = <<r>> \o @,
                  !.active = IF r.success THEN @ + 1 ELSE @,
                  !.clients[k + 1].st = "returned",
                  !.clients[k + 1].lastError = ""]

\* createConnection after `await client.connect(...)`: the push of the record.
\* connect() has returned, so its local lastError is gone.
pushResult(s, k, result) ==
    LET r == [result EXCEPT !.isActive = Some(result.success)]
    IN  [s EXCEPT !.results = Append(@, r),
                  !.active = IF r.success THEN @ + 1 ELSE @,
                  !.clients[k + 1].st = "returned",
                  !.clients[k + 1].lastError = ""]

\* An attempt of client k failed with error err; the transport is left in
\* state left when the attempt was the final one.
attemptFailed(s, k, err, left, cfg, t) ==
    LET c == At(s.clients, k)
        maxRetries == EffectiveMaxRetries(cfg)
    IN  IF ~IsFinalAttempt(c.attempt, maxRetries)
        THEN [s EXCEPT !.clients[k + 1] =
                    [cleanup(c) EXCEPT
                        !.lastError = err,
                        !.attempt = @ + 1,
                        !.delay = BackoffDelay(EffectiveRetryDelay(cfg),
                                               c.attempt + 1),
                        !.st = "backoff"]]
        ELSE settle(pushResult(
                      [s EXCEPT !.clients[k + 1] =
                            [c EXCEPT !.lastError = err, !.socket = left,
                                      !.failedWith = err]],
                      k, FailureResult(c, maxRetries, err)), cfg, t)

\* ------------------------------------------------------------- statistics
\* results.filter(r => ...).length, by the positions that pass the filter.
Successful(res) == {p \in Positions(res) : At(res, p).success}
Failed(res) == {p \in Positions(res) : ~At(res, p).success}
CurrentlyActive(res) ==
    {p \in Positions(res) : At(res, p).success /\ Truthy(At(res, p).isActive)}
\* Variant of Disconnected: the filter without its test of success.
DisconnectedAnyRecord(res) ==
    {p \in Positions(res) : ~Truthy(At(res, p).isActive)}

Disconnected(res) ==
    {p \in Positions(res) : At(res, p).success /\ ~Truthy(At(res, p).isActive)}
SpontaneouslyDisconnected(res) ==
    {p \in Positions(res) : Truthy(At(res, p).spontaneousDisconnect)}

getConnectionStats(res) ==
    [total |-> Len(res),
     successful |-> Cardinality(Successful(res)),
     failed |-> Cardinality(Failed(res)),
     active |-> Cardinality(CurrentlyActive(res)),
     disconnected |-> Cardinality(Disconnected(res)),
     spontaneousDisconnections |-> Cardinality(SpontaneouslyDisconnected(res))]

getActiveConnectionCount == activeConnections

\* (a / b) * 100 in double arithmetic for integers a and b >= 0: the exact
\* fraction when b is not 0, NaN for 0 / 0, an infinity otherwise.
Rate(a, b) ==
    IF b = 0
    THEN [kind |-> IF a = 0 THEN "NaN" ELSE "Infinity", num |-> 0, den |-> 0]
    ELSE [kind |-> "number", num |-> a * 100, den |-> b]

\* Variant of FloorDenominator: the count itself.
Unfloored(n) == n

\* Math.max(successful.length, 1)
FloorDenominator(n) == Max(n, 1)

\* printSummary(): Success Rate
successRate(res) == Rate(Cardinality(Successful(res)), Len(res))

\* printSummary(): Connection Retention
retentionRate(res) ==
    Rate(Cardinality(CurrentlyActive(res)),
         FloorDenominator(Cardinality(Successful(res))))

\* printSummary(): Connection Stability
stabilityRate(res) ==
    Rate(Cardinality(Successful(res))
            - Cardinality(SpontaneouslyDisconnected(res)),
         FloorDenominator(Cardinality(Successful(res))))

\* SocketBenchmark.analyzeResults(connectionResults, ...)
connectionSuccessRate(connectionResults) ==
    Rate(Cardinality(Successful(connectionResults)), Len(connectionResults))

\* SocketClient.isConnected()
isConnected(c) == c.connected /\ c.socket = "open"

\* ------------------------------------------- simulateRandomDisconnections()
\* clients.filter((_, index) => results[index]?.success && results[index]?.isActive)
RECURSIVE ConnectedClientsFrom(_, _, _)
ConnectedClientsFrom(cl, res, index) ==
    IF index >= Len(cl) THEN <<>>
    ELSE (IF index \in Positions(res) /\ At(res, index).success
             /\ Truthy(At(res, index).isActive)
          THEN <<index>> ELSE <<>>) \o ConnectedClientsFrom(cl, res, index + 1)

ConnectedClients(cl, res) == ConnectedClientsFrom(cl, res, 0)

\* Math.floor(length * (percentage / 100)); exact for the percentages used.
DisconnectCount(length, percentage) == (length * percentage) \div 100

\* The closes scheduled for the random indexes picks[1], picks[2], ...:
\* iteration n schedules its close only if the picked client is connected.
RECURSIVE ScheduledCloses(_, _, _, _)
ScheduledCloses(cl, connectedClients, picks, n) ==
    IF n > Len(picks) THEN <<>>
    ELSE (IF isConnected(At(cl, connectedClients[picks[n]]))
          THEN <<connectedClients[picks[n]]>> ELSE <<>>)
         \o ScheduledCloses(cl, connectedClients, picks, n + 1)

\* ------------------------------------------------------------------ Init
\* No prober: startMessageTesting() has not been called.
NoProber == [armed |-> FALSE,          \* the interval timer is set
             connectedClients |-> <<>>,
             ticks |-> <<>>,            \* the interval callbacks started
             tickStarts |-> {},         \* history: shutdowns at each tick start
             sent |-> {}]               \* history: <<event, shutdowns>> emitted

NoSim == [called |-> FALSE, percentage |-> 0, activeBefore |-> 0,
          spontaneousBefore |-> 0, disconnectCount |-> 0, undisturbed |-> FALSE]

Configs ==
    {cfg \in [targetConnections : TargetValues,
              connectionRate : RateValues,
              testDuration : TestDurationValues,
              maxRetries : MaxRetriesValues,
              retryDelay : RetryDelayValues,
              messageInterval : {0},
              serverHost : ServerHostValues,
              serverPort : ServerPortValues,
              headers : HeadersValues,
              companyId : CompanyIdValues,
              token : TokenValues] :
        cfg.targetConnections * (EffectiveMaxRetries(cfg) + 1) <= MaxAttempts}

\* A tester constructed with one of the configurations cfgs.
InitOf(cfgs) ==
    /\ config \in cfgs
    /\ clients = <<>>
    /\ results = <<>>
    /\ activeConnections = 0
    /\ disconnectedConnections = 0
    /\ spontaneousDisconnections = 0
    /\ pc = "init"
    /\ i = 0
    /\ chunkPromises = {}
    /\ now = 1
    /\ chunkLog = <<>>
    /\ runs = 0
    /\ simTimers = <<>>
    /\ sim = NoSim
    /\ shutdowns = 0
    /\ prober = NoProber

Init == InitOf(Configs)

\* The clock advances past every macrotask that stamped a record.
Advance(s) == now' = IF s.results # results /\ Len(s.results) = Len(results)
                     THEN now + 1 ELSE now

Disturb == sim' = [sim EXCEPT !.undisturbed = FALSE]

\* ---------------------------------------------------------------- actions
\* tester.testConnections() is called.
Start ==
    /\ pc = "init"
    /\ runs' = 1
    /\ \E s \in {loopFrom(Tester, 0, config, 1, now)} :
          Commit(s) /\ Advance(s)
    /\ UNCHANGED <<config, simTimers, sim>>

\* The transport reports 'connect' while the attempt is pending.
OnConnect(k) ==
    /\ At(clients, k).st = "connecting"
    /\ At(clients, k).socket = "opening"
    /\ \E s \in {LET c == onConnect(At(clients, k), now)
                      s1 == [Tester EXCEPT !.clients[k + 1] = c]
                      s2 == pushResult(s1, k,
                                SuccessResult(c, EffectiveMaxRetries(config)))
                  IN  settle(s2, config, now)} :
          Commit(s) /\ Advance(s)
    /\ UNCHANGED <<config, runs, simTimers, sim>>

\* The transport reports 'connect' after the watchdog settled the final attempt.
OnLateConnect(k) ==
    /\ At(clients, k).st = "returned"
    /\ At(clients, k).socket = "opening"
    /\ clients' = [clients EXCEPT ![k + 1] = onConnect(@, now)]
    /\ UNCHANGED <<config, results, activeConnections, disconnectedConnections,
                   spontaneousDisconnections, pc, i, chunkPromises, now,
                   chunkLog, runs, simTimers, sim, shutdowns, prober>>

\* The transport reports 'connect_error'.
OnConnectError(k) ==
    /\ At(clients, k).st = "connecting"
    /\ At(clients, k).socket = "opening"
    /\ \E s \in {attemptFailed(Tester, k, "connect_error", "closed", config, now)} :
          Commit(s) /\ Advance(s)
    /\ UNCHANGED <<config, runs, simTimers, sim>>

\* The 90 s watchdog of the attempt fires: the socket stays as it is.
OnTimeout(k) ==
    /\ At(clients, k).st = "connecting"
    /\ At(clients, k).socket \in {"opening", "closed"}
    /\ \E s \in {attemptFailed(Tester, k, "Connection timeout",
                               At(clients, k).socket, config, now)} :
          Commit(s) /\ Advance(s)
    /\ UNCHANGED <<config, runs, simTimers, sim>>

\* The backoff delay ends: the next attempt opens a new socket.
BackoffElapsed(k) ==
    /\ At(clients, k).st = "backoff"
    /\ clients' = [clients EXCEPT ![k + 1] =
                      attemptConnection([@ EXCEPT !.st = "connecting"],
                                        config)]
    /\ UNCHANGED <<config, results, activeConnections, disconnectedConnections,
                   spontaneousDisconnections, pc, i, chunkPromises, now,
                   chunkLog, runs, simTimers, sim, shutdowns, prober>>

\* The transport reports the loss of an established connection.
OnTransportDisconnect(k, reason) ==
    /\ At(clients, k).socket = "open"
    /\ \E s \in {onDisconnect(Tester, k, reason, now)} :
          Commit(s) /\ now' = now + 1
    /\ Disturb
    /\ UNCHANGED <<config, runs, simTimers>>

\* The one-second pause between chunks ends.
PauseElapsed ==
    /\ pc = "pause"
    /\ config.connectionRate > 0 \/ Len(chunkLog) < LoopCap
    /\ \E s \in {loopFrom(Tester, i + config.connectionRate, config, runs, now)} :
          Commit(s) /\ Advance(s)
    /\ UNCHANGED <<config, runs, simTimers, sim>>

\* Variant of HoldTimerDue: the hold timer overtakes the prober's timer.
HoldTimerDueFirst(s) == TRUE

\* The hold timer is set after the timer that clears the prober's interval,
\* with the same delay: it fires once that one has fired.
HoldTimerDue(s) == ~s.prober.armed

\* The hold ends: disconnectAll() runs up to its await.
HoldElapsed ==
    /\ pc = "hold"
    /\ HoldTimerDue(Tester)
    /\ \E s \in {startShutdown(Tester, now)} :
          Commit(s) /\ now' = now + 1
    /\ Disturb
    /\ UNCHANGED <<config, runs, simTimers>>

\* disconnectAll() after `await Promise.all(disconnectPromises)`.
ShutdownDone ==
    /\ pc = "closing"
    /\ activeConnections' = 0
    /\ pc' = "done"
    /\ UNCHANGED <<config, clients, results, disconnectedConnections,
                   spontaneousDisconnections, i, chunkPromises, now, chunkLog,
                   runs, simTimers, sim, shutdowns, prober>>

Next ==
    \/ Start
    \/ \E k \in Positions(clients) : OnConnect(k)
    \/ \E k \in Positions(clients) : OnLateConnect(k)
    \/ \E k \in Positions(clients) : OnConnectError(k)
    \/ \E k \in Positions(clients) : OnTimeout(k)
    \/ \E k \in Positions(clients) : BackoffElapsed(k)
    \/ \E k \in Positions(clients), reason \in TransportReasons :
            OnTransportDisconnect(k, reason)
    \/ PauseElapsed
    \/ HoldElapsed
    \/ ShutdownDone

Spec == Init /\ [][Next]_vars

\* tester.simulateRandomDisconnections(percentage) is called by a harness,
\* during the hold or after testConnections() has returned.
Simulate(percentage) ==
    /\ pc \in {"hold", "done"}
    /\ ~sim.called
    /\ LET connectedClients == ConnectedClients(clients, results)
           disconnectCount == DisconnectCount(Len(connectedClients), percentage)
       IN  /\ \E picks \in [1..disconnectCount -> 1..Len(connectedClients)] :
                simTimers' = simTimers \o
                    ScheduledCloses(clients, connectedClients, picks, 1)
           /\ sim' = [called |-> TRUE,
                      percentage |-> percentage,
                      activeBefore |-> getConnectionStats(results).active,
                      spontaneousBefore |->
                          getConnectionStats(results).spontaneousDisconnections,
                      disconnectCount |-> disconnectCount,
                      undisturbed |-> TRUE]
    /\ UNCHANGED <<config, clients, results, activeConnections,
                   disconnectedConnections, spontaneousDisconnections, pc, i,
                   chunkPromises, now, chunkLog, runs, shutdowns,
                   prober>>

\* The earliest staggered timer of the simulation fires: client.disconnect().
SimulatedClose ==
    /\ simTimers # <<>>
    /\ \E s \in {clientDisconnect(Tester, Head(simTimers), now)} :
          Commit(s) /\ Advance(s)
    /\ simTimers' = Tail(simTimers)
    /\ UNCHANGED <<config, runs, sim>>

NextSim ==
    \/ Next
    \/ \E percentage \in PercentageValues : Simulate(percentage)
    \/ SimulatedClose

SpecSim == Init /\ [][NextSim]_vars

\* tester.testConnections() is called again on the same tester.
StartAgain ==
    /\ pc = "done"
    /\ runs < MaxRuns
    /\ Len(clients) + config.targetConnections <= MaxReuseClients
    /\ runs' = runs + 1
    /\ \E s \in {loopFrom(Tester, 0, config, runs + 1, now)} :
          Commit(s) /\ Advance(s)
    /\ Disturb
    /\ UNCHANGED <<config, simTimers>>

InitReuse == Init /\ config.targetConnections <= MaxReuseTarget

NextReuse == Next \/ StartAgain

SpecReuse == InitReuse /\ [][NextReuse]_vars

\* connect() under every base delay the configuration can carry.
BackoffConfigs ==
    {cfg \in [targetConnections : 0..MaxBackoffTarget,
              connectionRate : RateValues,
              testDuration : TestDurationValues,
              maxRetries : BackoffRetriesValues,
              retryDelay : BackoffDelayValues,
              messageInterval : {0},
              serverHost : ServerHostValues,
              serverPort : ServerPortValues,
              headers : HeadersValues,
              companyId : CompanyIdValues,
              token : TokenValues] :
        cfg.targetConnections * (EffectiveMaxRetries(cfg) + 1) <= MaxAttempts}

InitBackoff == InitOf(BackoffConfigs)

SpecBackoff == InitBackoff /\ [][Next]_vars

\* disconnectAll() is run again after it has completed.
ShutdownAgain ==
    /\ pc = "done"
    /\ shutdowns < MaxShutdowns
    /\ \E s \in {startShutdown(Tester, now)} :
          Commit(s) /\ now' = now + 1
    /\ Disturb
    /\ UNCHANGED <<config, runs, simTimers>>

InitShutdown == Init /\ config.targetConnections <= MaxShutdownTarget

NextShutdown == Next \/ ShutdownAgain

SpecShutdown == InitShutdown /\ [][NextShutdown]_vars

\* The transport closes under a socket whose handshake is still pending: the
\* 'disconnect' listener is attached when the socket is created.
OnEarlyDisconnect(k, reason) ==
    /\ At(clients, k).st = "connecting"
    /\ At(clients, k).socket = "opening"
    /\ \E s \in {onDisconnect(Tester, k, reason, now)} :
          Commit(s) /\ now' = now + 1
    /\ Disturb
    /\ UNCHANGED <<config, runs, simTimers>>

InitEarly == Init /\ config.targetConnections <= MaxEarlyTarget

NextEarly ==
    \/ Next
    \/ \E k \in Positions(clients), reason \in TransportReasons :
            OnEarlyDisconnect(k, reason)

SpecEarly == InitEarly /\ [][NextEarly]_vars

\* One tester over its whole life: runs, simulated disconnections, shutdowns.
NextLifetime ==
    \/ NextSim
    \/ StartAgain
    \/ ShutdownAgain

SpecLifetime == InitReuse /\ [][NextLifetime]_vars

\* ------------------------------------------------------- liveness probes
\* sendPing() past its guard: emit('ping') on the socket, then the wait for
\* 'pong' or for the 5 s timeout.
pingSent(c) ==
    [c EXCEPT !.pending = @ + 1, !.pinged = @ \cup {c.socket}]

\* The callback of the ping timer of client k.
pingTick(s, k) ==
    LET c == At(s.clients, k)
    IN  IF c.connected /\ c.socket # "null"
        THEN [s EXCEPT !.clients[k + 1] = pingSent(c)]
        ELSE s

\* The timer's callback after sendPing() resolved.
pingSucceeded(s, k) ==
    [s EXCEPT !.clients[k + 1].pending = @ - 1,
              !.clients[k + 1].pingCount = @ + 1]

\* Variant of pingFailed: a failed ping is treated as a disconnection.
pingFailedDrops(s, k, t) ==
    handleDisconnection(
        [s EXCEPT !.clients[k + 1].pending = @ - 1,
                  !.clients[k + 1].failedPings = @ + 1],
        At(s.clients, k).clientId, "ping timeout", 0, t)

\* The timer's callback after sendPing() rejected: the catch block.
pingFailed(s, k, t) ==
    [s EXCEPT !.clients[k + 1].pending = @ - 1,
              !.clients[k + 1].failedPings = @ + 1]

\* getPingStats(): pingCount is raised by an answered ping only, failedPings
\* by a rejected one.
getPingStats(c) ==
    [total |-> c.pingCount,
     failed |-> c.failedPings,
     successRate |-> IF c.pingCount > 0
                     THEN Rate(c.pingCount - c.failedPings, c.pingCount)
                     ELSE [kind |-> "number", num |-> 0, den |-> 1]]

PingBudget(c) == c.pingCount + c.failedPings + c.pending < MaxPings

\* The 5 s ping timer of client k fires.
PingTick(k) ==
    /\ At(clients, k).pingInterval
    /\ PingBudget(At(clients, k))
    /\ At(clients, k).connected /\ At(clients, k).socket # "null"
    /\ Commit(pingTick(Tester, k))
    /\ UNCHANGED <<config, now, runs, simTimers, sim>>

\* 'pong' arrives for a ping of the timer.
PingPong(k) ==
    /\ At(clients, k).pending > 0
    /\ At(clients, k).socket = "open"
    /\ Commit(pingSucceeded(Tester, k))
    /\ UNCHANGED <<config, now, runs, simTimers, sim>>

\* The 5 s timeout of a ping of the timer fires.
PingTimeout(k) ==
    /\ At(clients, k).pending > 0
    /\ \E s \in {pingFailed(Tester, k, now)} :
          Commit(s) /\ Advance(s)
    /\ UNCHANGED <<config, runs, simTimers, sim>>

\* Math.min(10, connectedClients.length)
SampleSize(length) == IF length < 10 THEN length ELSE 10

\* connectedClients.sort(() => 0.5 - Math.random()): any order of the array.
Shuffles(seq) ==
    {order \in [1..Len(seq) -> {seq[n] : n \in 1..Len(seq)}] :
        \A a, b \in 1..Len(seq) : a # b => order[a] # order[b]}

\* The loop of tick n over queue, up to its next await: a client whose
\* sendPing() rejects at once is passed over by the catch block.
RECURSIVE probeFrom(_, _, _)
probeFrom(s, n, queue) ==
    IF queue = <<>>
    THEN [s EXCEPT !.prober.ticks[n] = [@ EXCEPT !.queue = <<>>, !.phase = "done"]]
    ELSE LET c == At(s.clients, Head(queue))
         IN  IF c.socket # "null" /\ c.connected
             THEN [s EXCEPT
                     !.prober.ticks[n] = [@ EXCEPT !.queue = queue, !.phase = "ping"],
                     !.prober.sent = @ \cup {<<"ping", s.shutdowns>>}]
             ELSE probeFrom([s EXCEPT !.prober.ticks[n].passed = @ + 1],
                            n, Tail(queue))

\* Tick n after its sendPing() resolved: sendTestMessage() on the same client.
probeMessage(s, n) ==
    LET queue == s.prober.ticks[n].queue
        c == At(s.clients, Head(queue))
    IN  IF c.socket # "null" /\ c.connected
        THEN [s EXCEPT
                !.prober.ticks[n].phase = "message",
                !.prober.sent = @ \cup {<<"broadcast", s.shutdowns>>}]
        ELSE probeFrom([s EXCEPT !.prober.ticks[n].passed = @ + 1],
                       n, Tail(queue))

\* A callback of the interval before its loop: queue holds the clients still
\* to probe, the head being the one whose answer is awaited.
NewTick == [queue |-> <<>>,
            phase |-> "done",       \* ping | message | done
            passed |-> 0]           \* history: probes rejected 'Not connected'

\* The prober's interval timer fires: a new tick starts.
ProberTick ==
    /\ prober.armed
    /\ Len(prober.ticks) < MaxTicks
    /\ \E order \in Shuffles(prober.connectedClients) :
         LET n == Len(prober.ticks) + 1
             s == [Tester EXCEPT
                     !.prober.connectedClients = order,
                     !.prober.ticks = Append(@, NewTick),
                     !.prober.tickStarts = @ \cup {shutdowns}]
         IN  Commit(probeFrom(s, n, SubSeq(order, 1, SampleSize(Len(order)))))
    /\ UNCHANGED <<config, now, runs, simTimers, sim>>

\* The answer to the probe tick n waits for arrives.
ProbeAnswered(n) ==
    /\ prober.ticks[n].phase \in {"ping", "message"}
    /\ At(clients, Head(prober.ticks[n].queue)).socket = "open"
    /\ Commit(IF prober.ticks[n].phase = "ping"
              THEN probeMessage(Tester, n)
              ELSE probeFrom(Tester, n, Tail(prober.ticks[n].queue)))
    /\ UNCHANGED <<config, now, runs, simTimers, sim>>

\* The timeout of the probe tick n waits for fires: the catch block.
ProbeTimeout(n) ==
    /\ prober.ticks[n].phase \in {"ping", "message"}
    /\ Commit(probeFrom(Tester, n, Tail(prober.ticks[n].queue)))
    /\ UNCHANGED <<config, now, runs, simTimers, sim>>

\* The timer set by startMessageTesting() fires: clearInterval.
ProberTimeout ==
    /\ prober.armed
    /\ prober' = [prober EXCEPT !.armed = FALSE]
    /\ UNCHANGED <<config, clients, results, activeConnections,
                   disconnectedConnections, spontaneousDisconnections, pc, i,
                   chunkPromises, now, chunkLog, runs, simTimers, sim, shutdowns>>

ProbeConfigs ==
    {cfg \in [targetConnections : ProbeTargetValues,
              connectionRate : RateValues,
              testDuration : TestDurationValues,
              maxRetries : MaxRetriesValues,
              retryDelay : RetryDelayValues,
              messageInterval : MessageIntervalValues,
              serverHost : ServerHostValues,
              serverPort : ServerPortValues,
              headers : HeadersValues,
              companyId : CompanyIdValues,
              token : TokenValues] :
        cfg.targetConnections * (EffectiveMaxRetries(cfg) + 1) <= MaxAttempts}

InitProbe == InitOf(ProbeConfigs)

\* The ping timers of the clients.
InitPing == Init /\ config.targetConnections \in PingTargetValues

NextPing ==
    \/ Next
    \/ \E k \in Positions(clients) : PingTick(k)
    \/ \E k \in Positions(clients) : PingPong(k)
    \/ \E k \in Positions(clients) : PingTimeout(k)

SpecPing == InitPing /\ [][NextPing]_vars

\* The message prober of the hold.
NextProbe ==
    \/ Next
    \/ ProberTick
    \/ \E n \in 1..Len(prober.ticks) : ProbeAnswered(n)
    \/ \E n \in 1..Len(prober.ticks) : ProbeTimeout(n)
    \/ ProberTimeout

SpecProbe == InitProbe /\ [][NextProbe]_vars

\* Both kinds of liveness probe at work on the same clients.
InitLiveness == InitProbe /\ config.targetConnections \in LivenessTargetValues

NextLiveness ==
    \/ NextPing
    \/ ProberTick
    \/ \E n \in 1..Len(prober.ticks) : ProbeAnswered(n)
    \/ \E n \in 1..Len(prober.ticks) : ProbeTimeout(n)
    \/ ProberTimeout

SpecLiveness == InitLiveness /\ [][NextLiveness]_vars

\* ------------------------------------------------------ exceptions in a unit
\* Variant of connectRejected: the rejection is passed on to Promise.all.
connectRejectedAborts(s, k, cfg, t) ==
    [s EXCEPT !.pc = "rejected",
              !.clients[k + 1].st = "returned",
              !.clients[k + 1].failedWith = "connect() rejected"]

\* createConnection's catch block: connect() rejected.
connectRejected(s, k, cfg, t) ==
    settle([s EXCEPT !.results = Append(@, CatchResult(At(s.clients, k), cfg)),
                     !.clients[k + 1].st = "returned",
                     !.clients[k + 1].lastError = "",
                     !.clients[k + 1].failedWith = "connect() rejected"],
           cfg, t)

\* attemptConnection() rejects: an exception raised while the socket is set
\* up is caught by connect() and counts as a failed attempt.
OnAttemptThrows(k) ==
    /\ At(clients, k).st = "connecting"
    /\ At(clients, k).socket = "opening"
    /\ \E s \in {attemptFailed(Tester, k, "thrown", At(clients, k).socket,
                               config, now)} :
          Commit(s) /\ Advance(s)
    /\ UNCHANGED <<config, runs, simTimers, sim>>

\* connect() itself rejects: an exception raised outside its try block.
OnConnectThrows(k) ==
    /\ At(clients, k).st = "connecting"
    /\ \E s \in {connectRejected(Tester, k, config, now)} :
          Commit(s) /\ Advance(s)
    /\ UNCHANGED <<config, runs, simTimers, sim>>

InitThrow == Init /\ config.targetConnections \in ThrowTargetValues

NextThrow ==
    \/ Next
    \/ \E k \in Positions(clients) : OnAttemptThrows(k)
    \/ \E k \in Positions(clients) : OnConnectThrows(k)

\* A step the run itself is waiting for: a pending attempt ends (by 'connect',
\* by 'connect_error', by the 90 s watchdog or by an exception), or a timer
\* that is set fires.
Progress ==
    \/ Start
    \/ \E k \in Positions(clients) :
            OnConnect(k) \/ OnConnectError(k) \/ OnTimeout(k)
                \/ OnAttemptThrows(k) \/ OnConnectThrows(k)
    \/ \E k \in Positions(clients) : BackoffElapsed(k)
    \/ PauseElapsed
    \/ HoldElapsed
    \/ ShutdownDone

\* Every timer that is set fires, and every pending attempt ends.
ThrowFairness == WF_vars(Progress)

SpecThrow == InitThrow /\ [][NextThrow]_vars /\ ThrowFairness

\* =================================================================== claims
RecordOfSlot(slot) == {p \in Positions(results) : At(results, p).unit = slot}
Slots == 0..(config.targetConnections - 1)
OutOfOrder == \E p \in Positions(results) : At(results, p).unit # p

\* C1: after testConnections() completes for targetConnections = T the outcome
\* list holds exactly T records, successful + failed = T, and every requested
\* slot has exactly one record.
C1_OneRecordPerSlot ==
    pc = "done" =>
        /\ Len(results) = config.targetConnections
        /\ getConnectionStats(results).successful
             + getConnectionStats(results).failed = config.targetConnections
        /\ \A slot \in Slots : Cardinality(RecordOfSlot(slot)) = 1

C1_Witness ==
    /\ pc = "done"
    /\ config.targetConnections >= 2
    /\ getConnectionStats(results).successful >= 1
    /\ getConnectionStats(results).failed >= 1

\* C2: after disconnectAll has completed no record is active: the statistics
\* report active = 0 and the active counter is 0, whatever the mix of outcomes
\* and the order in which the units completed.
C2_NoneActiveAfterShutdown ==
    pc = "done" =>
        /\ \A p \in Positions(results) : ~Truthy(At(results, p).isActive)
        /\ getConnectionStats(results).active = 0
        /\ getActiveConnectionCount = 0

C2_Witness ==
    /\ pc = "done"
    /\ OutOfOrder
    /\ \E p \in Positions(results) : ~At(results, p).success
    /\ \E p \in Positions(results) :
            At(results, p).disconnectionReason = Some(ManualReason)
    /\ \E p \in Positions(results) :
            Truthy(At(results, p).spontaneousDisconnect)

Classified(r) == r.disconnectionReason # None

OneClassification(r) ==
    \/ /\ r.disconnectionReason = None
       /\ r.spontaneousDisconnect = None
    \/ /\ r.disconnectionReason = Some(ManualReason)
       /\ r.spontaneousDisconnect = Some(FALSE)
       /\ r.isActive = Some(FALSE)
    \/ /\ \E reason \in TransportReasons : r.disconnectionReason = Some(reason)
       /\ r.spontaneousDisconnect = Some(TRUE)
       /\ r.isActive = Some(FALSE)

ClassificationKept ==
    \A p \in Positions(results) :
        Classified(At(results, p)) =>
            p \in Positions(results') /\ At(results', p) = At(results, p)

C4_MonitorHitsOwnRecord ==
    [][\A k \in Positions(clients), reason \in TransportReasons :
          OnTransportDisconnect(k, reason) =>
              \A p \in Positions(results) :
                  At(results', p) # At(results, p) =>
                      /\ At(results, p).unit = At(clients, k).slot
                      /\ At(results, p).run = At(clients, k).run]_vars

\* C5: handleDisconnection mutates the record it looked up only if that record
\* has success = true and isActive = true; on an inactive record it changes
\* neither the record nor the active, disconnected and spontaneous counters.
C5_MonitorSkipsInactive ==
    [][\A k \in Positions(clients), reason \in TransportReasons :
          OnTransportDisconnect(k, reason) =>
              LET resultIndex ==
                      FindResultIndex(results, At(clients, k).clientId)
              IN  (resultIndex # -1
                     /\ ~(At(results, resultIndex).success
                            /\ Truthy(At(results, resultIndex).isActive))) =>
                        /\ results' = results
                        /\ activeConnections' = activeConnections
                        /\ disconnectedConnections' = disconnectedConnections
                        /\ spontaneousDisconnections' = spontaneousDisconnections
      ]_vars

\* C6: with N active connections, once simulateRandomDisconnections(p) and its
\* staggered closes have been processed (and nothing else happened), the
\* statistics report floor(N*p/100) more spontaneous disconnections and
\* N - floor(N*p/100) active connections.
C6_SimulationIsRecorded ==
    (sim.called /\ sim.undisturbed /\ simTimers = <<>>) =>
        LET expected == (sim.activeBefore * sim.percentage) \div 100
        IN  /\ getConnectionStats(results).spontaneousDisconnections
                 = sim.spontaneousBefore + expected
            /\ getConnectionStats(results).active = sim.activeBefore - expected

\* The chunk (1-based position in chunkLog) that launched a slot.
ChunkOf(slot) == CHOOSE n \in 1..Len(chunkLog) : slot \in chunkLog[n]

Resolved(slot) ==
    /\ \E k \in Positions(clients) :
          At(clients, k).slot = slot /\ At(clients, k).st = "returned"
    /\ RecordOfSlot(slot) # {}

\* C7: no unit of chunk K+1 is started before every unit of chunk K has
\* resolved, and every outcome of chunk K precedes every outcome of chunk K+1
\* in the outcome list.
C7_ChunksInSequence ==
    /\ \A n \in 1..(Len(chunkLog) - 1) : \A slot \in chunkLog[n] : Resolved(slot)
    /\ \A p, q \in Positions(results) :
          p < q => ChunkOf(At(results, p).unit) <= ChunkOf(At(results, q).unit)

C7_Witness ==
    /\ Len(chunkLog) = 2
    /\ Cardinality(chunkLog[1]) = 2
    /\ OutOfOrder
    /\ \E k \in Positions(clients) : At(clients, k).st = "connecting"
                                       /\ At(clients, k).slot \in chunkLog[2]

CeilDiv(a, b) == (a + b - 1) \div b

SlotsIn(cfg, iv) == Cardinality(ChunkSlots(iv, cfg))

\* C8: for connectionRate R >= 1 the ramp-up issues exactly ceil(T/R) chunks,
\* every chunk but the last of R units and the last of T - R*(ceil(T/R) - 1),
\* and launches each slot 0..T-1 exactly once (T = 250, R = 100: 100, 100, 50).
C8_ChunkedRampUp ==
    /\ (config.connectionRate >= 1 /\ pc \in {"hold", "closing", "done"}) =>
          LET T == config.targetConnections
              R == config.connectionRate
              chunks == CeilDiv(T, R)
          IN  /\ Len(chunkLog) = chunks
              /\ \A n \in 1..(chunks - 1) : Cardinality(chunkLog[n]) = R
              /\ chunks >= 1 =>
                    Cardinality(chunkLog[chunks]) = T - R * (chunks - 1)
              /\ \A slot \in Slots :
                    Cardinality({n \in 1..chunks : slot \in chunkLog[n]}) = 1
              /\ \A slot \in Slots :
                    Cardinality({k \in Positions(clients) :
                                    At(clients, k).slot = slot}) = 1
              /\ Len(clients) = T
    /\ pc = "init" =>
          LET big == [config EXCEPT !.targetConnections = 250,
                                    !.connectionRate = 100]
          IN  /\ CeilDiv(250, 100) = 3
              /\ <<SlotsIn(big, 0), SlotsIn(big, 100), SlotsIn(big, 200)>>
                   = <<100, 100, 50>>
              /\ ~PauseNeeded(200, big) /\ PauseNeeded(100, big)

C8_Witness ==
    /\ pc = "hold"
    /\ config.targetConnections = 3
    /\ config.connectionRate = 2
    /\ chunkLog = <<{0, 1}, {2}>>

\* C9: every outcome record has 0 <= retryCount <= the configured maxRetries,
\* for every configured maxRetries >= 0 (0 included).
C9_RetryCountWithinConfigured ==
    \A p \in Positions(results) :
        /\ At(results, p).retryCount >= 0
        /\ At(results, p).retryCount <= config.maxRetries

\* C10: with maxRetries configured as 0 retries are disabled: every unit makes
\* exactly one connection attempt and its outcome has retryCount = 0.
C10_ZeroDisablesRetries ==
    config.maxRetries = 0 =>
        /\ \A k \in Positions(clients) :
              /\ At(clients, k).attempt = 0
              /\ At(clients, k).st # "backoff"
        /\ \A p \in Positions(results) : At(results, p).retryCount = 0

\* The client whose connect() returned the record r.
ClientOf(r) ==
    CHOOSE k \in Positions(clients) :
        At(clients, k).slot = r.unit /\ At(clients, k).run = r.run

\* connect() has returned: its loop is left and no attempt can follow.
NoFurtherAttempt(k) == At(clients, k).st = "returned"

\* C11: for every outcome connect() returned, finalAttempt is true if and only
\* if no further attempt would occur for that unit (early success, success on
\* attempt maxRetries, terminal failure).  Stated for a configured maxRetries
\* of at least 1; the configured 0 is the case of C10.
C11_FinalAttemptIffNoMoreAttempts ==
    config.maxRetries >= 1 =>
        \A p \in Positions(results) :
            At(results, p).finalAttempt
                <=> NoFurtherAttempt(ClientOf(At(results, p)))

\* C12: connect() called with maxRetries performs at most maxRetries + 1
\* attempts; attempt 0 starts without delay, a further attempt starts only
\* after the previous one failed, no attempt follows a successful one, and a
\* unit whose attempts all fail performs exactly maxRetries + 1 attempts.
C12_AtMostMaxRetriesPlusOneAttempts ==
    LET maxRetries == EffectiveMaxRetries(config)
    IN  /\ \A k \in Positions(clients) :
              LET c == At(clients, k)
              IN  /\ c.attempts >= 1
                  /\ c.attempts <= maxRetries + 1
                  /\ c.attempt = 0 =>
                        c.attempts = 1 /\ c.delay = 0 /\ c.st # "backoff"
                  /\ c.attempts >= 2 =>
                        \/ c.lastError # ""
                        \/ c.st = "returned"
        /\ \A p \in Positions(results) :
              LET r == At(results, p)
                  c == At(clients, ClientOf(r))
              IN  /\ c.st = "returned"
                  /\ r.success => c.attempts = r.retryCount + 1
                  /\ ~r.success => c.attempts = maxRetries + 1

C12_Witness ==
    /\ \E p \in Positions(results) :
          /\ ~At(results, p).success
          /\ At(clients, ClientOf(At(results, p))).attempts >= 2
    /\ \E p \in Positions(results) :
          /\ At(results, p).success
          /\ At(results, p).retryCount >= 1

\* C13: the delay awaited before attempt k >= 1 is baseDelayMs * 2^(k-1) for
\* the configured base delay, 0 included, with no jitter and no cap; for base
\* 1000 the delays of k = 1..5 are 1000, 2000, 4000, 8000, 16000.
C13_BackoffDelayExact ==
    /\ \A k \in Positions(clients) :
          At(clients, k).attempt >= 1 =>
              At(clients, k).delay
                  = config.retryDelay * Pow2(At(clients, k).attempt - 1)
    /\ [k \in 1..5 |-> BackoffDelay(1000, k)]
          = <<1000, 2000, 4000, 8000, 16000>>

\* The records of the unit that client k served.
OwnRecords(k) ==
    {p \in Positions(results) :
        /\ At(results, p).unit = At(clients, k).slot
        /\ At(results, p).run = At(clients, k).run}

\* The transport reported a non-local disconnection of client k, whose
\* connect() had returned success.
DroppedAfterSuccess(k) ==
    /\ Len(At(clients, k).calls) >= 1
    /\ \E p \in OwnRecords(k) : At(results, p).success

\* C14: every disconnection the transport reports with a non-local reason for
\* a successfully connected unit is recorded: that unit's record then has
\* isActive = false and spontaneousDisconnect = true, and
\* spontaneousDisconnections is the number of such units, whatever the
\* completion order and the moment of the event.
C14_EveryDropIsRecorded ==
    /\ \A k \in Positions(clients) :
          DroppedAfterSuccess(k) =>
              \A p \in OwnRecords(k) :
                  /\ At(results, p).isActive = Some(FALSE)
                  /\ At(results, p).spontaneousDisconnect = Some(TRUE)
    /\ spontaneousDisconnections
          = Cardinality({k \in Positions(clients) : DroppedAfterSuccess(k)})

\* C15: running disconnectAll again after it has completed changes no record
\* and no counter: the disconnected and spontaneous counts are kept and the
\* active counter stays 0.
C15_ShutdownIsIdempotent ==
    /\ [][ShutdownAgain =>
            /\ results' = results
            /\ disconnectedConnections' = disconnectedConnections
            /\ spontaneousDisconnections' = spontaneousDisconnections
            /\ activeConnections = 0
            /\ activeConnections' = 0]_vars
    /\ [](shutdowns >= 2 => activeConnections = 0)

C15_Witness ==
    /\ shutdowns = 2
    /\ pc = "done"
    /\ \E p, q \in Positions(results) :
          /\ At(results, p).disconnectionReason = Some(ManualReason)
          /\ Truthy(At(results, q).spontaneousDisconnect)

\* C16: in disconnectAll every still-active unit's own record is marked
\* isActive = false, 'manual_disconnect', spontaneousDisconnect = false before
\* the close of that unit's transport is issued.
C16_OwnRecordMarkedBeforeClose ==
    [][HoldElapsed =>
          \A index \in Positions(clients) :
              \A p \in OwnRecords(index) :
                  Truthy(At(results, p).isActive) =>
                      LET r == At(closeIssued(Tester, index, now).results, p)
                      IN  /\ r.isActive = Some(FALSE)
                          /\ r.disconnectionReason = Some(ManualReason)
                          /\ r.spontaneousDisconnect = Some(FALSE)]_vars

NonLocal(reason) == reason # LocalCloseReason

\* C17: the disconnection callback is invoked for a 'disconnect' event if and
\* only if the reported reason is not 'io client disconnect'; it receives the
\* unit's identity, the transport's reason and the time since the handshake.
C17_CallbackIffNotLocalClose ==
    \A k \in Positions(clients) :
        LET c == At(clients, k)
        IN  /\ [n \in 1..Len(c.calls) |-> c.calls[n].reason]
                  = SelectSeq(c.events, NonLocal)
            /\ \A n \in 1..Len(c.calls) :
                  /\ c.calls[n].clientId = ClientId(c.slot)
                  /\ c.calls[n].handshaken =>
                        c.calls[n].connectionDuration
                            = c.calls[n].at - c.connectionStartTime

C17_Witness ==
    \E k, m \in Positions(clients) :
        /\ At(clients, k).events = <<LocalCloseReason>>
        /\ At(clients, k).calls = <<>>
        /\ At(clients, m).events # <<>>
        /\ At(clients, m).events[1] \in TransportReasons
        /\ Len(At(clients, m).calls) = 1
        /\ At(clients, m).calls[1].connectionDuration > 0

\* C18: the disconnection callback is invoked at most once per unit over all
\* its attempts, and never before the unit's successful handshake.
C18_CallbackOnceAfterHandshake ==
    \A k \in Positions(clients) :
        /\ Len(At(clients, k).calls) <= 1
        /\ \A n \in 1..Len(At(clients, k).calls) :
              At(clients, k).calls[n].handshaken

\* C19: when handleDisconnection matches a record it sets, in that one step,
\* isActive = false, disconnectedAt, disconnectionReason = reason,
\* connectionDuration = durationMs and spontaneousDisconnect = true, and it
\* decrements the active counter by one but not below zero; the active
\* counter is never negative.
C19_MatchUpdatesAndFloorsCounter ==
    /\ [](activeConnections >= 0)
    /\ [][\A k \in Positions(clients), reason \in TransportReasons :
            OnTransportDisconnect(k, reason) =>
                LET c == At(clients, k)
                    resultIndex == FindResultIndex(results, c.clientId)
                IN  (resultIndex # -1 /\ At(results, resultIndex).success) =>
                        LET r == At(results', resultIndex)
                        IN  /\ r.isActive = Some(FALSE)
                            /\ r.disconnectedAt = Some(now)
                            /\ r.disconnectionReason = Some(reason)
                            /\ r.connectionDuration
                                  = Some(now - c.connectionStartTime)
                            /\ r.spontaneousDisconnect = Some(TRUE)
                            /\ activeConnections' =
                                  IF activeConnections >= 1
                                  THEN activeConnections - 1 ELSE 0
          ]_vars

\* A record is matched while the active counter is 0: the second run of the
\* tester has no successful unit, yet one of its clients had its callback
\* invoked and the record at its index carries that call's stamp.
C19_Witness ==
    /\ runs = 2
    /\ pc = "hold"
    /\ activeConnections = 0
    /\ \A p \in Positions(results) :
          At(results, p).run = 2 => ~At(results, p).success
    /\ \E k \in Positions(clients) :
          /\ At(clients, k).run = 2
          /\ Len(At(clients, k).calls) = 1
          /\ LET resultIndex ==
                     FindResultIndex(results, At(clients, k).clientId)
             IN  /\ resultIndex # -1
                 /\ At(results, resultIndex).spontaneousDisconnect = Some(TRUE)
                 /\ At(results, resultIndex).disconnectedAt
                        = Some(At(clients, k).calls[1].at)

\* C20: for every record isActive never changes from false to true, and so
\* from true to false at most once, under any sequence of disconnect events,
\* simulated disconnections and shutdowns.
C20_IsActiveOnlyFalls ==
    [][\A p \in Positions(results) :
          /\ p \in Positions(results')
          /\ ~Truthy(At(results, p).isActive) =>
                ~Truthy(At(results', p).isActive)]_vars

C20_Witness ==
    /\ sim.called
    /\ sim.disconnectCount >= 1
    /\ simTimers = <<>>
    /\ shutdowns >= 2
    /\ runs = 2
    /\ \E p \in Positions(results) :
          /\ At(results, p).run = 1
          /\ At(results, p).spontaneousDisconnect = Some(TRUE)
          /\ \E k \in Positions(clients) :
                /\ At(clients, k).run = 2
                /\ Len(At(clients, k).calls) = 1
                /\ At(results, p).disconnectedAt
                      = Some(At(clients, k).calls[1].at)

\* C21: each unit contributes exactly one outcome record, appended only when
\* the unit has resolved: none while an attempt or a backoff is pending, and a
\* terminal-failure record has success = false, finalAttempt = true,
\* retryCount = the maxRetries connect() was called with, and carries the
\* error of the last attempt made.
C21_OneRecordWhenResolved ==
    \A k \in Positions(clients) :
        LET c == At(clients, k)
            maxRetries == EffectiveMaxRetries(config)
        IN  /\ Cardinality(OwnRecords(k)) = IF c.st = "returned" THEN 1 ELSE 0
            /\ \A p \in OwnRecords(k) :
                  ~At(results, p).success =>
                      /\ At(results, p).finalAttempt
                      /\ At(results, p).retryCount = maxRetries
                      /\ c.attempts = maxRetries + 1
                      /\ c.failedWith # ""
                      /\ At(results, p).errorMessage =
                            Some(<<"Failed after", maxRetries + 1, c.failedWith>>)

\* A unit failed for good after attempts that ended differently, while another
\* unit is in its backoff after a failed attempt.
C21_Witness ==
    /\ \E k \in Positions(clients) :
          /\ At(clients, k).st = "returned"
          /\ At(clients, k).attempts >= 2
          /\ At(clients, k).failedWith = "Connection timeout"
          /\ \E p \in OwnRecords(k) :
                At(results, p).errorMessage =
                    Some(<<"Failed after", 2, "Connection timeout">>)
    /\ \E k \in Positions(clients) :
          /\ At(clients, k).st = "backoff"
          /\ At(clients, k).lastError = "connect_error"
          /\ OwnRecords(k) = {}

\* Every slot of the run has been launched.
LaunchedAll == {At(clients, k).slot : k \in Positions(clients)} = Slots

\* C22: if a unit's connect() rejects or all of its attempts fail, one failed
\* record is kept for that slot and the run carries on: the chunk is awaited
\* no longer than its units take, every slot is launched, the hold and the
\* shutdown follow, and testConnections() returns.
C22_FailedUnitDoesNotStopRun ==
    /\ [](\A k \in Positions(clients) :
            At(clients, k).failedWith # "" =>
                /\ At(clients, k).st = "returned"
                /\ Cardinality(OwnRecords(k)) = 1
                /\ \A p \in OwnRecords(k) : ~At(results, p).success)
    /\ [](pc = "await" =>
            \E k \in chunkPromises : At(clients, k).st # "returned")
    /\ (pc \in {"await", "pause"} /\ config.connectionRate > 0
            /\ config.testDuration > 0)
          ~> (pc = "hold" /\ LaunchedAll)
    /\ (pc \in {"await", "pause", "hold", "closing"}
            /\ config.connectionRate > 0)
          ~> (pc = "done" /\ LaunchedAll /\ shutdowns = 1)

\* The run has returned after a hold although the unit of its first chunk
\* rejected and the unit of its second chunk failed all its attempts.
C22_Witness ==
    /\ pc = "done"
    /\ shutdowns = 1
    /\ config.testDuration > 0
    /\ Len(chunkLog) = 2
    /\ \E k \in Positions(clients) :
          /\ At(clients, k).slot = 0
          /\ At(clients, k).failedWith = "connect() rejected"
          /\ \E p \in OwnRecords(k) :
                At(results, p).errorMessage = Some(<<"Unknown error">>)
    /\ \E k \in Positions(clients) :
          /\ At(clients, k).slot = 1
          /\ At(clients, k).failedWith = "thrown"
          /\ \E p \in OwnRecords(k) : ~At(results, p).success

\* The unit of client k has terminated: its last attempt failed, or it was
\* disconnected after its handshake.
Terminated(k) ==
    \/ At(clients, k).failedWith # ""
    \/ /\ At(clients, k).connectionStartTime > 0
       /\ At(clients, k).socket = "closed"

\* C23: a unit that has terminated holds no transport handle and no event
\* subscriptions: after every failed attempt, the final one included, the
\* listeners are removed and the transport is closed.
C23_TerminatedUnitHoldsNothing ==
    \A k \in Positions(clients) :
        Terminated(k) => At(clients, k).socket = "null"

\* Client c completed a handshake and is no longer connected.
Dropped(c) == c.connectionStartTime > 0 /\ ~c.connected

\* C24: a unit disconnected after a successful handshake stays disconnected:
\* it never connects again and never starts another attempt, and no
\* step changes a record's success flag or retryCount, and the successful and
\* failed counts change only when a unit's record is appended.
C24_DisconnectedIsTerminal ==
    [][/\ \A k \in Positions(clients) :
             Dropped(At(clients, k)) =>
                 /\ ~At(clients', k).connected
                 /\ At(clients', k).socket = "closed"
                 /\ At(clients', k).st = At(clients, k).st
                 /\ At(clients', k).attempt = At(clients, k).attempt
                 /\ At(clients', k).attempts = At(clients, k).attempts
       /\ \A p \in Positions(results) :
             /\ p \in Positions(results')
             /\ At(results', p).success = At(results, p).success
             /\ At(results', p).retryCount = At(results, p).retryCount
       /\ Len(results') = Len(results) =>
             /\ getConnectionStats(results').successful
                   = getConnectionStats(results).successful
             /\ getConnectionStats(results').failed
                   = getConnectionStats(results).failed
      ]_vars

\* A unit that connected on a retry lost its transport, and the run went on
\* to its shutdown, its end and a second shutdown.
C24_Witness ==
    /\ pc = "done"
    /\ shutdowns = 2
    /\ \E k \in Positions(clients) :
          /\ Dropped(At(clients, k))
          /\ Len(At(clients, k).calls) = 1
          /\ \E p \in OwnRecords(k) :
                /\ At(results, p).success
                /\ At(results, p).retryCount = 1
                /\ At(results, p).spontaneousDisconnect = Some(TRUE)

\* A step of a liveness probe: a tick of a ping timer or of the prober, or
\* the answer or the timeout one of their probes was waiting for.
ProbeStep ==
    \/ \E k \in Positions(clients) :
          /\ k \in Positions(clients')
          /\ \/ At(clients', k).pending # At(clients, k).pending
             \/ At(clients', k).pingCount # At(clients, k).pingCount
             \/ At(clients', k).failedPings # At(clients, k).failedPings
    \/ prober'.ticks # prober.ticks
    \/ prober'.sent # prober.sent

\* C25: a liveness probe that fails or times out, however often, changes no
\* outcome record and no counter; isActive becomes false only in a step that
\* handles a 'disconnect' event or runs the shutdown.
C25_ProbesChangeNoRecord ==
    [][/\ ProbeStep =>
             /\ results' = results
             /\ activeConnections' = activeConnections
             /\ disconnectedConnections' = disconnectedConnections
             /\ spontaneousDisconnections' = spontaneousDisconnections
       /\ \A p \in Positions(results) :
             (/\ p \in Positions(results')
              /\ Truthy(At(results, p).isActive)
              /\ ~Truthy(At(results', p).isActive)) =>
                 \/ shutdowns' # shutdowns
                 \/ \E k \in Positions(clients) :
                       Len(At(clients', k).events) > Len(At(clients, k).events)
      ]_vars

\* Two pings of the unit's timer failed and the ping of a prober tick timed
\* out, so the tick ended without its test message; the unit is still
\* connected and counted as active.
C25_Witness ==
    /\ pc = "hold"
    /\ activeConnections = 1
    /\ Len(prober.ticks) = 1
    /\ prober.ticks[1].phase = "done"
    /\ prober.sent = {<<"ping", 0>>}
    /\ \E k \in Positions(clients) :
          /\ At(clients, k).failedPings = 2
          /\ At(clients, k).connected
          /\ \E p \in OwnRecords(k) : Truthy(At(results, p).isActive)

\* C26, as stated: whenever disconnect() closes a unit's transport, the
\* unit's ping timer has been cancelled before.
C26_TimerCancelledBeforeClose ==
    \A k \in Positions(clients) : ~At(clients, k).closedArmed

\* C26, amended: the ping timer of a unit is cancelled in the step that
\* closes its transport, by the 'disconnect' listener the close runs, so the
\* timer is armed only while the transport is open and every ping of a timer
\* tick was sent on an open transport.
C26_NoPingOnClosedTransport ==
    \A k \in Positions(clients) :
        /\ At(clients, k).pingInterval =>
              At(clients, k).socket = "open" /\ At(clients, k).connected
        /\ At(clients, k).pinged \subseteq {"open"}

\* The shutdown closed a unit whose timer was armed and had a ping in flight;
\* the ping then timed out.
C26_Witness ==
    /\ pc = "done"
    /\ \E k \in Positions(clients) :
          /\ At(clients, k).closedArmed
          /\ ~At(clients, k).pingInterval
          /\ At(clients, k).socket = "closed"
          /\ At(clients, k).pinged = {"open"}
          /\ At(clients, k).pingCount = 1
          /\ At(clients, k).failedPings = 1
          /\ At(clients, k).events = <<LocalCloseReason>>

\* C27: the prober's timer is cancelled with the hold timer: once the hold has
\* ended and disconnectAll has begun the interval is cleared, no tick has
\* started since, and no probe has been sent to a unit since.
C27_NoProbeAfterHoldEnds ==
    /\ shutdowns >= 1 => ~prober.armed
    /\ \A started \in prober.tickStarts : started = 0
    /\ \A probe \in prober.sent : probe[2] = 0

\* A tick over two connected units sent its first ping during the hold; the
\* shutdown then closed both units, the ping timed out, and the probe of the
\* second unit was rejected without being sent.
C27_Witness ==
    /\ pc = "done"
    /\ Len(prober.connectedClients) = 2
    /\ Len(prober.ticks) = 1
    /\ prober.ticks[1].phase = "done"
    /\ prober.ticks[1].passed = 1
    /\ prober.sent = {<<"ping", 0>>}
    /\ \A k \in Positions(clients) :
          At(clients, k).events = <<LocalCloseReason>>

IsSuccess(r) == r.success
IsFailure(r) == ~r.success
IsActiveSuccess(r) == r.success /\ r.isActive = Some(TRUE)
IsInactiveSuccess(r) == r.success /\ r.isActive # Some(TRUE)
IsSpontaneous(r) == r.spontaneousDisconnect = Some(TRUE)

\* C28: getConnectionStats() returns total = number of records, successful and
\* failed = the records split on success, active = successes with isActive,
\* disconnected = successes without, spontaneousDisconnections = records with
\* spontaneousDisconnect; so successful + failed = total and
\* active + disconnected = successful.
C28_StatsPartitionRecords ==
    LET stats == getConnectionStats(results)
    IN  /\ stats.total = Len(results)
        /\ stats.successful = Len(SelectSeq(results, IsSuccess))
        /\ stats.failed = Len(SelectSeq(results, IsFailure))
        /\ stats.active = Len(SelectSeq(results, IsActiveSuccess))
        /\ stats.disconnected = Len(SelectSeq(results, IsInactiveSuccess))
        /\ stats.spontaneousDisconnections
              = Len(SelectSeq(results, IsSpontaneous))
        /\ stats.successful + stats.failed = stats.total
        /\ stats.active + stats.disconnected = stats.successful

\* Records of every kind at once: a failure, an active success, a success
\* the transport dropped.
C28_Witness ==
    LET stats == getConnectionStats(results)
    IN  /\ stats.total = 3
        /\ stats.failed = 1
        /\ stats.active = 1
        /\ stats.disconnected = 1
        /\ stats.spontaneousDisconnections = 1

\* The value 0, computed with the denominator 1.
ZeroOverOne == [kind |-> "number", num |-> 0, den |-> 1]

\* C29: with no successful record (every unit failed, or there is no unit),
\* retentionRate and stabilityRate are both 0, the denominator being
\* max(successful, 1) = 1.
C29_RatesZeroWithoutSuccess ==
    getConnectionStats(results).successful = 0 =>
        /\ retentionRate(results) = ZeroOverOne
        /\ stabilityRate(results) = ZeroOverOne

\* The run has returned and each of its two units failed.
C29_Witness ==
    /\ pc = "done"
    /\ getConnectionStats(results).total = 2
    /\ getConnectionStats(results).failed = 2
    /\ retentionRate(results).den = 1

\* C30: every rate percentage computed from the outcome list (success rate,
\* retention, stability, and the benchmark's connection success rate) has a
\* denominator of at least 1, so none divides by zero once the run has
\* returned, whatever the list holds.
C30_EveryRateDenominatorAtLeastOne ==
    pc = "done" =>
        /\ successRate(results).kind = "number"
        /\ retentionRate(results).kind = "number"
        /\ stabilityRate(results).kind = "number"
        /\ connectionSuccessRate(results).kind = "number"

\* ---------------------------------------------------------------- C31
\* C31: every connection attempt of every unit is opened against the host and
\* the port of the configuration, with the headers createConnection() passes to
\* connect() as extraHeaders and auth.
C31_AttemptsUseConfiguredServer ==
    \A k \in Positions(clients) :
        \A n \in 1..Len(At(clients, k).opened) :
            LET o == At(clients, k).opened[n]
            IN  /\ o.host = config.serverHost
                /\ o.port = Some(config.serverPort)
                /\ o.extraHeaders = ConnectHeaders(config)
                /\ o.auth = ConnectHeaders(config)

\* ---------------------------------------------------------------- C32
\* C32: under every configuration of non-negative integers, 0 included, and
\* whatever the server does, every iteration of the chunk loop launches at
\* least one slot, so the loop advances; the attempts of a chunk all end, so
\* the chunk is not awaited for ever; and testConnections() reaches the
\* shutdown and returns.
C32_RunReturns ==
    /\ [](\A n \in 1..Len(chunkLog) : chunkLog[n] # {})
    /\ (pc = "await") ~> (pc # "await")
    /\ (pc = "pause") ~> (pc # "pause" /\ i > 0)
    /\ <>(pc = "done")

\* ---------------------------------------------------------------- C33
\* A step of disconnectAll(): its executors, the wait for their timers, or
\* its return.
ShutdownStep == shutdowns' # shutdowns \/ pc = "closing"

\* C33: spontaneousDisconnect becomes true only in a step in which a client
\* invoked the disconnection callback, and a record that is classified
\* spontaneous when a step of disconnectAll() begins is the same record, in
\* every field, when the step ends.
C33_SpontaneousSetOnlyByMonitor ==
    [][/\ \A p \in Positions(results') :
             (/\ Truthy(At(results', p).spontaneousDisconnect)
              /\ ~(/\ p \in Positions(results)
                   /\ Truthy(At(results, p).spontaneousDisconnect)))
                => \E k \in Positions(clients) :
                       Len(At(clients', k).calls) > Len(At(clients, k).calls)
       /\ ShutdownStep =>
             \A p \in Positions(results) :
                 Truthy(At(results, p).spontaneousDisconnect) =>
                     At(results', p) = At(results, p)
      ]_vars

\* Two shutdowns have run over a record that the monitor classified as
\* spontaneous during the hold, next to a record the shutdown closed.
C33_Witness ==
    /\ pc = "done"
    /\ shutdowns = 2
    /\ \E p, q \in Positions(results) :
          /\ At(results, p).spontaneousDisconnect = Some(TRUE)
          /\ At(results, p).isActive = Some(FALSE)
          /\ At(results, p).disconnectionReason # Some(ManualReason)
          /\ At(results, p).connectionDuration # None
          /\ At(results, q).disconnectionReason = Some(ManualReason)
          /\ At(results, q).spontaneousDisconnect = Some(FALSE)

\* ---------------------------------------------------------------- C34
\* The fields of a record that say which outcome it is.
Outcome(r) ==
    [unit |-> r.unit, run |-> r.run, success |-> r.success,
     errorMessage |-> r.errorMessage, retryCount |-> r.retryCount,
     finalAttempt |-> r.finalAttempt]

\* C34: the outcome list only grows at its end: every record stays at its
\* position with its outcome; a record changes only in a step in which a
\* client invoked the disconnection callback or disconnectAll() ran its
\* executors; a step of a prober changes neither the list nor what
\* getConnectionStats() returns.
C34_OutcomeListAppendOnly ==
    [][/\ Len(results') >= Len(results)
       /\ \A p \in Positions(results) :
             /\ Outcome(At(results', p)) = Outcome(At(results, p))
             /\ At(results', p) # At(results, p) =>
                   \/ shutdowns' # shutdowns
                   \/ \E k \in Positions(clients) :
                         Len(At(clients', k).calls) > Len(At(clients, k).calls)
       /\ (prober' # prober /\ pc' = pc) =>
             /\ results' = results
             /\ getConnectionStats(results') = getConnectionStats(results)
      ]_vars

\* Two records were appended one after the other; the monitor changed the
\* first, the shutdown the second, and the prober had sent a ping and a
\* test message.
C34_Witness ==
    /\ pc = "done"
    /\ Len(results) = 2
    /\ At(results, 0).spontaneousDisconnect = Some(TRUE)
    /\ At(results, 1).disconnectionReason = Some(ManualReason)
    /\ Cardinality(prober.sent) >= 2

\* ---------------------------------------------------------------- C35
\* The positions of testConnections() inside its chunk loop.
RampUp == {"init", "await", "pause"}

\* Every slot was launched and every unit's connect() has returned.
AllResolved ==
    /\ LaunchedAll
    /\ \A k \in Positions(clients) : At(clients, k).st = "returned"

\* C35: the run leaves ramp-up only with every unit of every chunk resolved,
\* for the hold when testDuration > 0 and straight for the shutdown when it
\* is 0; the shutdown starts from the hold when there is one, and only the
\* return follows it; the prober is started only on entering the hold and
\* only when testDuration > 0 and messageInterval > 0.
C35_RampUpHoldShutdownInOrder ==
    [][/\ (pc \in RampUp /\ pc' \notin RampUp) =>
             /\ pc' = IF config.testDuration > 0 THEN "hold" ELSE "closing"
             /\ AllResolved'
       /\ (pc = "hold" /\ pc' # pc) => pc' = "closing"
       /\ (pc = "closing" /\ pc' # pc) => pc' = "done"
       /\ pc = "done" => pc' = "done"
       /\ shutdowns' # shutdowns =>
             /\ pc' = "closing"
             /\ pc \in IF config.testDuration > 0
                        THEN {"hold"} ELSE {"init", "await"}
             /\ AllResolved'
       /\ (prober'.armed /\ ~prober.armed) =>
             /\ config.testDuration > 0
             /\ config.messageInterval > 0
             /\ pc \in RampUp
             /\ pc' = "hold"
       /\ (config.testDuration = 0 \/ config.messageInterval = 0) =>
             prober' = NoProber
      ]_vars

\* A run of two chunks with a hold and a prober: the prober took its
\* snapshot of both units on entering the hold, and the run has returned
\* after one shutdown.
C35_Witness ==
    /\ pc = "done"
    /\ shutdowns = 1
    /\ Len(chunkLog) = 2
    /\ config.testDuration > 0
    /\ Len(prober.connectedClients) = 2
    /\ Len(prober.ticks) = 1

\* ---------------------------------------------------------------- C36
\* The units whose close simulateRandomDisconnections() has scheduled.
SimulatedUnits(timers) == {timers[n] : n \in 1..Len(timers)}

\* C36: a call of simulateRandomDisconnections(p) with A active units
\* schedules the close of exactly floor(A * p / 100) distinct units, and each
\* of them is a unit whose own record is a success that is still active.
C36_SimulationClosesActiveUnits ==
    [][(~sim.called /\ sim'.called) =>
          /\ Cardinality(SimulatedUnits(simTimers'))
                = (getConnectionStats(results).active * sim'.percentage)
                      \div 100
          /\ \A k \in SimulatedUnits(simTimers') :
                \E p \in OwnRecords(k) :
                    /\ At(results, p).success
                    /\ Truthy(At(results, p).isActive)
      ]_vars

\* ---------------------------------------------------------------- C37
\* C37: whenever control is back in the event loop, the wait inside
\* disconnectAll() included, getActiveConnectionCount() is the number of
\* records that are successes and active, and the counter of spontaneous
\* disconnections is the number of records with spontaneousDisconnect = true.
C37_CountersMatchRecords ==
    /\ getActiveConnectionCount = getConnectionStats(results).active
    /\ spontaneousDisconnections
          = getConnectionStats(results).spontaneousDisconnections

\* ---------------------------------------------------------------- C38
\* A rate that is a number between 0 % and 100 %, that is a fraction
\* between 0 and 1.
FractionInRange(rate) ==
    /\ rate.kind = "number"
    /\ 0 <= rate.num
    /\ rate.num <= 100 * rate.den

\* C38: in every reachable state an active record is a success, a record
\* classified as spontaneous is a success that is no longer active, and a
\* record holds a connectionDuration only if it holds a disconnectedAt; so
\* spontaneousDisconnections <= disconnected <= successful, and the
\* retention and stability rates are fractions between 0 and 1.
C38_RecordFieldsConsistent ==
    LET stats == getConnectionStats(results)
    IN  /\ \A p \in Positions(results) :
              LET r == At(results, p)
              IN  /\ Truthy(r.isActive) => r.success
                  /\ Truthy(r.spontaneousDisconnect) =>
                        r.success /\ r.isActive = Some(FALSE)
                  /\ r.connectionDuration # None => r.disconnectedAt # None
        /\ stats.spontaneousDisconnections <= stats.disconnected
        /\ stats.disconnected <= stats.successful
        /\ FractionInRange(retentionRate(results))
        /\ FractionInRange(stabilityRate(results))

\* After the shutdown the list holds a failure whose unit connected late and
\* then lost its transport, a success the monitor classified, and a success
\* the shutdown closed, which has a disconnectedAt and no connectionDuration.
C38_Witness ==
    /\ pc = "done"
    /\ \E p, q, f \in Positions(results) :
          /\ At(results, p).spontaneousDisconnect = Some(TRUE)
          /\ At(results, p).connectionDuration # None
          /\ At(results, q).disconnectionReason = Some(ManualReason)
          /\ At(results, q).disconnectedAt # None
          /\ At(results, q).connectionDuration = None
          /\ ~At(results, f).success
          /\ \E k \in Positions(clients) :
                /\ f \in OwnRecords(k)
                /\ Len(At(clients, k).calls) = 1
    /\ retentionRate(results).num = 0
    /\ stabilityRate(results).num = 100

\* ---------------------------------------------------------------- C39
\* C39: a unit whose connect() returned a failed outcome is never connected
\* afterwards: its connected flag is false, its ping timer is not armed and
\* it has not invoked the disconnection callback, whatever the transport
\* reports after the final attempt was settled.
C39_FailedUnitNeverConnects ==
    \A k \in Positions(clients) :
        (/\ At(clients, k).st = "returned"
         /\ \E p \in OwnRecords(k) : ~At(results, p).success) =>
            /\ ~At(clients, k).connected
            /\ ~At(clients, k).pingInterval
            /\ At(clients, k).calls = <<>>

\* ---------------------------------------------------------------- C40
\* C40: once every ping a unit's timer sent is settled, getPingStats()
\* reports as total the number of pings sent, a failed count no larger than
\* the total, and as successRate the percentage of the pings sent that were
\* answered, which lies between 0 and 100 (0 when none was sent).
C40_PingStatsCountAttempts ==
    \A k \in Positions(clients) :
        LET c == At(clients, k)
            stats == getPingStats(c)
            answered == c.pingCount
            attempted == c.pingCount + c.failedPings
        IN  c.pending = 0 =>
                /\ stats.total = attempted
                /\ stats.failed <= stats.total
                /\ stats.successRate.kind = "number"
                /\ 0 <= stats.successRate.num
                /\ stats.successRate.num <= 100 * stats.successRate.den
                /\ stats.successRate.num * FloorDenominator(attempted)
                      = 100 * answered * stats.successRate.den

====
